---- MODULE Spec2Model ----
(***************************************************************************)
(* Protocol engine of the Scenario IFSEI gateway driver:                   *)
(*   ifsei/ifsei.py    IFSEI (connection manager, dispatcher) and          *)
(*                     _IFSEITelnetClient (sender and reader loops)        *)
(*   ifsei/manager.py  DeviceManager, Light, Cover                         *)
(* The asyncio tasks are modelled by their suspension points: an action is *)
(* the code one task runs between two awaits that really suspend.          *)
(* Strings of the wire protocol are sequences of one-character strings.    *)
(* The configured protocol is TCP (NetworkConfiguration.protocol default). *)
(***************************************************************************)
EXTENDS Integers, Sequences, FiniteSets, TLC

\* ---------------------------------------------------------------- bounds
MaxClients == 2      \* connections the gateway accepts in one run
MaxCmds == 2         \* commands enqueued in one run
MaxMsgs == 2         \* inbound frames read in one run
MaxCalls == 2        \* device-manager calls in one run of the device model
MaxChars == 3        \* characters one call of the reader accumulates

\* ------------------------------------------------------- string helpers
Digits == <<"0", "1", "2", "3", "4", "5", "6", "7", "8", "9">>

IsDigit(c) == \E i \in 1..10 : Digits[i] = c

DigitVal(c) == (CHOOSE i \in 1..10 : Digits[i] = c) - 1

IsSpace(c) == c \in {" ", "\r", "\n", "\t"}

\* Python s[a:b] for 0 <= a <= b (indices clamped to the length)
Slice(s, a, b) ==
    LET hi == IF b < Len(s) THEN b ELSE Len(s)
    IN  IF a >= hi THEN <<>> ELSE SubSeq(s, a + 1, hi)

StartsWith(s, p) == Len(s) >= Len(p) /\ SubSeq(s, 1, Len(p)) = p

RECURSIVE LStrip(_)
LStrip(s) == IF s # <<>> /\ IsSpace(Head(s)) THEN LStrip(Tail(s)) ELSE s

RECURSIVE RStrip(_)
RStrip(s) ==
    IF s # <<>> /\ IsSpace(s[Len(s)]) THEN RStrip(SubSeq(s, 1, Len(s) - 1)) ELSE s

\* Python str.strip()
Strip(s) == LStrip(RStrip(s))

\* Python s[:-2]
DropLast2(s) == IF Len(s) <= 2 THEN <<>> ELSE SubSeq(s, 1, Len(s) - 2)

RECURSIVE DigitsVal(_)
DigitsVal(s) ==
    IF s = <<>> THEN 0
    ELSE 10 * DigitsVal(SubSeq(s, 1, Len(s) - 1)) + DigitVal(s[Len(s)])

\* Python int(s): surrounding white space and one sign are accepted, the
\* rest must be a non-empty run of digits; anything else raises ValueError.
PyInt(s) ==
    LET t == Strip(s)
        signed == t # <<>> /\ t[1] \in {"+", "-"}
        body == IF signed THEN Tail(t) ELSE t
        ok == body # <<>> /\ \A i \in 1..Len(body) : IsDigit(body[i])
    IN  [ok |-> ok,
         num |-> IF ~ok THEN 0
                 ELSE IF signed /\ t[1] = "-" THEN 0 - DigitsVal(body)
                 ELSE DigitsVal(body)]

\* Python str(n) of an integer n >= 0
RECURSIVE Decimal(_)
Decimal(n) ==
    IF n < 10 THEN <<Digits[n + 1]>>
    ELSE Decimal(n \div 10) \o <<Digits[(n % 10) + 1]>>

Zeros(k) == [i \in 1..k |-> "0"]

\* Python format(n, "0<width>") of an integer n >= 0: zeros are put in
\* front of the digits up to the width, a longer number keeps all its digits
ZeroFillInt(n, width) ==
    LET d == Decimal(n)
    IN  IF Len(d) >= width THEN d ELSE Zeros(width - Len(d)) \o d

\* Python (3.10 and later) format(s, "0<width>") of a str s: a string is
\* left-aligned, so the fill character "0" goes behind it
ZeroFillStr(s, width) ==
    IF Len(s) >= width THEN s ELSE s \o Zeros(width - Len(s))

\* ------------------------------------------------------ configuration
\* device_config.yaml as DeviceManager.from_config loads it
Lights ==
    <<[unique_id |-> "l1",
       address |-> <<[module |-> 5, channel |-> 1, name |-> "w"]>>]>>

Covers ==
    <<[unique_id |-> "c1",
       up |-> <<"0", "0", "0", "1">>,
       stop |-> <<"0", "0", "0", "2">>,
       down |-> <<"0", "0", "0", "3">>]>>

\* a dimmer and an RGBW light that share the zone (5, 1)
TwoLights ==
    <<[unique_id |-> "l1",
       address |-> <<[module |-> 5, channel |-> 1, name |-> "w"]>>],
      [unique_id |-> "l2",
       address |-> <<[module |-> 6, channel |-> 1, name |-> "r"],
                     [module |-> 6, channel |-> 2, name |-> "g"],
                     [module |-> 6, channel |-> 3, name |-> "b"],
                     [module |-> 5, channel |-> 1, name |-> "w"]>>]>>

\* a second cover; its down address was written 12 in the YAML file
TwoCovers ==
    Covers \o
    <<[unique_id |-> "c2",
       up |-> <<"0", "1", "2", "3">>,
       stop |-> <<"0", "1", "2", "4">>,
       down |-> <<"1", "2">>]>>

\* two covers configured with the same up address
SharedCovers ==
    Covers \o
    <<[unique_id |-> "c2",
       up |-> <<"0", "0", "0", "1">>,
       stop |-> <<"0", "1", "2", "4">>,
       down |-> <<"0", "1", "2", "5">>]>>

\* the configuration files of the device model
Configs ==
    { [lights |-> Lights, covers |-> Covers],
      [lights |-> TwoLights, covers |-> TwoCovers],
      [lights |-> Lights, covers |-> SharedCovers] }

\* (module, channel, intensity) of the zone updates and zone commands
ZoneUpdates == { <<5, 1, 75>>, <<6, 2, 100>>, <<5, 2, 30>> }

ZoneCommands == { <<5, 2, 100>>, <<0, 0, 0>>, <<99, 9, 75>>, <<10, 1, 7>> }

\* framed messages handed to the dispatcher in the device model
Responses ==
    { <<"*", "I", "F", "S", "E", "I", "O", "N">>,
      <<"*", "Z", "0", "5", "0", "1", "L", "0", "7", "5">>,
      <<"*", "Z", "0", "6", "0", "2", "L", "1", "0", "0">>,
      <<"*", "Z", "0", "5", "0", "1", "L", "9", "9", "9">>,
      <<"*", "C", "0", "0", "0", "1", "1">>,
      <<"*", "C", "0", "0", "0", "3", "1">>,
      <<"*", "C", "0", "1", "2", "4", "1">>,
      <<"*", "I", "F", "S", "E", "I", "O", "N", "X">>,
      <<"?">>,
      <<"E", "1">>,
      <<"E", "3", "0", "5">>,
      <<"E", "9">> }

\* device ids the host passes; "zz" is no device
CallIds == {"l1", "l2", "c1", "c2", "zz"}

\* [red, green, blue, brightness] lists the light entities pass, and two
\* lists of a wrong length
ColorLists == { <<10, 20, 30, 40>>, <<1, 2, 3>>, <<1, 2, 3, 4, 5>> }

\* scene addresses the cover entities pass
MoveAddresses == { <<"0", "1", "2", "3">>, <<"1", "2">> }

\* frames the gateway puts on the wire, terminator included
RawFrames ==
    { <<"*", "I", "F", "S", "E", "I", "O", "N", "\r", ">">>,
      <<"*", "Z", "0", "5", "0", "1", "L", "0", "7", "5", "\r", ">">>,
      <<"*", "Z", "0", "x", "0", "1", "L", "0", "7", "5", "\r", ">">>,
      <<"?", "\r", ">">> }

\* raw command texts the host enqueues
RawCommands == { <<"$", "V", "E", "R">> }

\* exceptions open_connection can end with
ConnectErrors == {"refused", "timeout", "oserror"}


\* callbacks the host can register in a subscriber slot
Callbacks == {1}

\* A run carries either host commands or gateway responses: the sender side
\* and the reader/dispatcher side share no state but the client life cycle.
Traffic == {"commands", "responses"}

NoTask == 0      \* Python None for a task, client or connection reference

\* ------------------------------------------------------------- state
VARIABLES
    connection,      \* IFSEI.connection: NoTask or the client whose streams it holds
    is_connected,    \* IFSEI.is_connected
    is_closing,      \* IFSEI.is_closing
    reconnect_task,  \* IFSEI._reconnect_task: NoTask or an index of rtasks
    telnetclient,    \* IFSEI._telnetclient: NoTask or an index of clients
    setup,           \* the host's first async_connect call
    rtasks,          \* every _async_reconnect task ever created
    ptasks,          \* every _async_process_responses task ever created
    clients,         \* every _IFSEITelnetClient ever created
    send_queue,      \* QueueManager.send_queue
    receive_queue,   \* QueueManager.receive_queue
    enqueued,        \* number of commands put on send_queue so far
    pushed,          \* number of messages put on receive_queue so far
    written,         \* the commands written to a transport, in order
    dispatched,      \* ids of the messages handed to _async_handle_response
    addr_state,      \* address["state"] of every address of every light
    callback_,       \* Device.callback_ of every device
    notified,        \* subscriber calls made by the last step
    gateway,         \* the remote end: "flaky" or "stable"
    traffic,         \* what the run exercises: "commands" or "responses"
    lights,          \* DeviceManager._lights
    covers,          \* DeviceManager._covers
    call             \* the last call of the host into the device manager

vars == <<connection, is_connected, is_closing, reconnect_task, telnetclient,
          setup, rtasks, ptasks, clients, send_queue, receive_queue,
          enqueued, pushed, written, dispatched, addr_state, callback_,
          notified, gateway, traffic, lights, covers, call>>

engine == <<connection, is_connected, is_closing, reconnect_task, telnetclient>>
queues == <<send_queue, receive_queue, enqueued, pushed>>
logs == <<written, dispatched>>
devices == <<addr_state, callback_>>
model == <<lights, covers, call>>

LightIds == {lights[i].unique_id : i \in 1..Len(lights)}
CoverIds == {covers[i].unique_id : i \in 1..Len(covers)}
DeviceIds == LightIds \cup CoverIds

\* no call was made yet
NoCall == [n |-> 0, op |-> "none", args |-> <<>>, raised |-> FALSE]

\* ------------------------------------------------------ device model
\* a manager that calls callback_ without the test for None
Note_Unchecked(dev, key, val) ==
    <<[dev |-> dev, cb |-> callback_[dev], key |-> key, val |-> val]>>

\* Device.callback_(**{key: val}) of device dev, when a callback is set
Note(dev, key, val) ==
    IF callback_[dev] = NoTask THEN <<>>
    ELSE <<[dev |-> dev, cb |-> callback_[dev], key |-> key, val |-> val]>>

RECURSIVE NotifyLights(_, _)
NotifyLights(i, val) ==
    IF i > Len(lights) THEN <<>>
    ELSE Note(lights[i].unique_id, "available", val) \o NotifyLights(i + 1, val)

RECURSIVE NotifyCovers(_, _)
NotifyCovers(i, val) ==
    IF i > Len(covers) THEN <<>>
    ELSE Note(covers[i].unique_id, "available", val) \o NotifyCovers(i + 1, val)

\* a manager that tells the lights only
notify_subscriber_LightsOnly(val) == NotifyLights(1, val)

\* DeviceManager.notify_subscriber(available=val)
notify_subscriber(val) == NotifyLights(1, val) \o NotifyCovers(1, val)

\* a manager that compares the module only
AddrMatches_ModuleOnly(a, module_number, channel) ==
    a.module = module_number

\* async_handle_light_state_change: the test of one address
AddrMatches(a, module_number, channel) ==
    a.module = module_number /\ a.channel = channel

RECURSIVE LightZoneNotes(_, _, _, _, _)
LightZoneNotes(i, j, module_number, channel, state) ==
    IF j > Len(lights[i].address) THEN <<>>
    ELSE (IF AddrMatches(lights[i].address[j], module_number, channel)
          THEN Note(lights[i].unique_id, lights[i].address[j].name, state)
          ELSE <<>>)
         \o LightZoneNotes(i, j + 1, module_number, channel, state)

RECURSIVE ZoneNotes(_, _, _, _)
ZoneNotes(i, module_number, channel, state) ==
    IF i > Len(lights) THEN <<>>
    ELSE LightZoneNotes(i, 1, module_number, channel, state)
         \o ZoneNotes(i + 1, module_number, channel, state)

\* DeviceManager.async_handle_light_state_change: the cached states after it
ZoneStates(module_number, channel, state) ==
    [i \in 1..Len(lights) |->
        [j \in 1..Len(lights[i].address) |->
            IF AddrMatches(lights[i].address[j], module_number, channel)
            THEN state ELSE addr_state[i][j]]]

\* a manager that reports the down address as stop and the stop address as down
CoverCommand_Swapped(cover, change_address) ==
    IF change_address = cover.up THEN "up"
    ELSE IF change_address = cover.down THEN "stop"
    ELSE "down"

\* async_handle_scene_state_change: the command of the matching field
CoverCommand(cover, change_address) ==
    IF change_address = cover.up THEN "up"
    ELSE IF change_address = cover.down THEN "down"
    ELSE "stop"

\* DeviceManager.async_handle_scene_state_change: the callbacks it makes
RECURSIVE SceneNotes(_, _)
SceneNotes(i, change_address) ==
    IF i > Len(covers) THEN <<>>
    ELSE (IF change_address \in {covers[i].up, covers[i].down, covers[i].stop}
          THEN Note(covers[i].unique_id, "command",
                    CoverCommand(covers[i], change_address))
          ELSE <<>>)
         \o SceneNotes(i + 1, change_address)


\* ---------------------------------------------------------- dispatcher
\* _IFSEITelnetClient._async_read_until_prompt: what it returns for the
\* characters read up to and including the terminator
Frame(raw) == DropLast2(Strip(raw))

\* IFSEI.set_is_connected(v): the new flag and the callbacks made
Handled(flag, states, notes, raised) ==
    [is_connected |-> flag, states |-> states, notes |-> notes, raised |-> raised]

\* a handler that reads the intensity one character early
HandleZone_ShiftedIntensity(response) ==
    LET module_number == PyInt(Slice(response, 2, 4))
        channel == PyInt(Slice(response, 4, 6))
        intensity == PyInt(Slice(response, 6, 9))
    IN  IF module_number.ok /\ channel.ok /\ intensity.ok
        THEN Handled(is_connected,
                     ZoneStates(module_number.num, channel.num, intensity.num),
                     ZoneNotes(1, module_number.num, channel.num, intensity.num),
                     FALSE)
        ELSE Handled(is_connected, addr_state, <<>>, TRUE)

\* IFSEI._async_handle_zone_response
HandleZone(response) ==
    LET module_number == PyInt(Slice(response, 2, 4))
        channel == PyInt(Slice(response, 4, 6))
        intensity == PyInt(Slice(response, 7, 10))
    IN  IF module_number.ok /\ channel.ok /\ intensity.ok
        THEN Handled(is_connected,
                     ZoneStates(module_number.num, channel.num, intensity.num),
                     ZoneNotes(1, module_number.num, channel.num, intensity.num),
                     FALSE)
        ELSE Handled(is_connected, addr_state, <<>>, TRUE)

\* IFSEI._async_handle_scene_response
HandleScene(response) ==
    Handled(is_connected, addr_state, SceneNotes(1, Slice(response, 2, 6)), FALSE)

\* the keys of ERROR_CODES
ErrorCodes == { <<"E", "1">>, <<"E", "2">>, <<"E", "3">>, <<"E", "4">> }

\* Python s.split(" ")[0]
RECURSIVE FirstWord(_)
FirstWord(s) ==
    IF s = <<>> \/ Head(s) = " " THEN <<>> ELSE <<Head(s)>> \o FirstWord(Tail(s))

\* a handler that indexes ERROR_CODES[error_code]: KeyError for a code
\* that is not in the table
HandleError_Indexed(response) ==
    Handled(is_connected, addr_state, <<>>,
            FirstWord(Strip(response)) \notin ErrorCodes)

\* IFSEI._async_handle_error: ERROR_CODES.get with a default text, the
\* module address appended for a code that starts with E3, logger.error
HandleError(response) ==
    Handled(is_connected, addr_state, <<>>, FALSE)

\* a handler that rejects a message no branch recognizes
HandleUnknown_Raises(response) ==
    Handled(is_connected, addr_state, <<>>, TRUE)

\* IFSEI._async_handle_response when no branch is taken
HandleUnknown(response) ==
    Handled(is_connected, addr_state, <<>>, FALSE)

\* a dispatcher that tests startswith("*IFSEION")
HandleResponse_Prefix(response) ==
    IF StartsWith(response, <<"*", "I", "F", "S", "E", "I", "O", "N">>)
    THEN Handled(TRUE, addr_state, notify_subscriber(TRUE), FALSE)
    ELSE IF StartsWith(response, <<"*", "Z">>) THEN HandleZone(response)
    ELSE IF StartsWith(response, <<"*", "C">>) THEN HandleScene(response)
    ELSE IF StartsWith(response, <<"E">>) THEN HandleError(response)
    ELSE HandleUnknown(response)

\* IFSEI._async_handle_response; the final "if" on the prefix E excludes
\* the three branches before it
HandleResponse(response) ==
    IF response = <<"*", "I", "F", "S", "E", "I", "O", "N">>
    THEN Handled(TRUE, addr_state, notify_subscriber(TRUE), FALSE)
    ELSE IF StartsWith(response, <<"*", "Z">>) THEN HandleZone(response)
    ELSE IF StartsWith(response, <<"*", "C">>) THEN HandleScene(response)
    ELSE IF StartsWith(response, <<"E">>) THEN HandleError(response)
    ELSE HandleUnknown(response)

\* what the "except Exception: ... raise" of _async_process_responses
\* leaves of the loop after a handler raised
AfterHandlerError == "crashed"

\* ------------------------------------------------------------ clients
\* _IFSEITelnetClient.__init__ (inside IFSEI._create_client)
NewClient ==
    [transport |-> "up", stage |-> "negotiating",
     send_task |-> "none", receive_task |-> "none", ignored |-> FALSE,
     response |-> <<>>]

Running(task) == task \in {"get", "delay", "read"}

\* _IFSEITelnetClient._stop_tasks
StopTasks(cl) ==
    [cl EXCEPT !.send_task = IF Running(@) THEN "cancelled" ELSE @,
               !.receive_task = IF Running(@) THEN "cancelled" ELSE @]

\* a client factory that builds a new QueueManager for every client
ClientQueues_Fresh == <<<<>>, <<>>>>

\* the queue pair a new client is given by IFSEI._create_client
ClientQueues == <<send_queue, receive_queue>>

\* exceptions the "except" of _async_reconnect catches
Retryable == {"refused", "timeout"}

\* on_connection_lost without the is_closing test
LossIgnored_Never == FALSE

\* IFSEI.on_connection_lost, "if self.is_closing: return"
LossIgnored == is_closing

\* on_connection_lost without the test of _reconnect_task
StartsReconnect_Always == TRUE

\* IFSEI.on_connection_lost, "if self._reconnect_task is None"
StartsReconnect == reconnect_task = NoTask

\* position of the caller k of async_connect: 0 is the host's setup call,
\* k > 0 the reconnect task rtasks[k]
Caller(k) == IF k = 0 THEN setup ELSE rtasks[k]

Callers == 0..Len(rtasks)

ClientIds == 1..Len(clients)

Live(c) == clients[c].transport = "up"

\* ------------------------------------------------------------ actions
Init ==
    /\ lights = Lights
    /\ covers = Covers
    /\ call = NoCall
    /\ connection = NoTask
    /\ is_connected = FALSE
    /\ is_closing = FALSE
    /\ reconnect_task = NoTask
    /\ telnetclient = NoTask
    /\ setup = [pc |-> "idle", cl |-> NoTask]
    /\ rtasks = <<>>
    /\ ptasks = <<>>
    /\ clients = <<>>
    /\ send_queue = <<>>
    /\ receive_queue = <<>>
    /\ enqueued = 0
    /\ pushed = 0
    /\ written = <<>>
    /\ dispatched = <<>>
    /\ addr_state = [i \in 1..Len(lights) |-> [j \in 1..Len(lights[i].address) |-> 0]]
    /\ callback_ = [d \in DeviceIds |-> NoTask]
    /\ notified = <<>>
    /\ gateway = "flaky"
    /\ traffic \in Traffic

\* async_setup_entry calls IFSEI.async_connect, which awaits open_connection
StartConnect ==
    /\ setup.pc = "idle"
    /\ setup' = [setup EXCEPT !.pc = "connect"]
    /\ notified' = <<>>
    /\ UNCHANGED <<engine, rtasks, ptasks, clients, queues, logs, devices, gateway, traffic, model>>

\* open_connection reaches the gateway: the client factory _create_client runs
ConnectEstablish(k) ==
    /\ Caller(k).pc = "connect"
    /\ Len(clients) < MaxClients
    /\ clients' = Append(clients, NewClient)
    /\ telnetclient' = Len(clients) + 1
    /\ send_queue' = ClientQueues[1]
    /\ receive_queue' = ClientQueues[2]
    /\ IF k = 0
       THEN setup' = [pc |-> "negotiating", cl |-> Len(clients) + 1]
            /\ UNCHANGED rtasks
       ELSE rtasks' = [rtasks EXCEPT ![k] = [pc |-> "negotiating", cl |-> Len(clients) + 1]]
            /\ UNCHANGED setup
    /\ notified' = <<>>
    /\ UNCHANGED <<connection, is_connected, is_closing, reconnect_task, ptasks,
                   enqueued, pushed, logs, devices, gateway, traffic, model>>

\* open_connection returns the streams: the "else" branch of async_connect
\* and, for a reconnect task, the "else" branch of _async_reconnect
ConnectReturn(k) ==
    /\ Caller(k).pc = "negotiating"
    /\ Live(Caller(k).cl)
    /\ connection' = Caller(k).cl
    /\ ptasks' = Append(ptasks, "running")
    /\ clients' = [clients EXCEPT ![Caller(k).cl].stage = "shell_pending"]
    /\ IF k = 0
       THEN setup' = [setup EXCEPT !.pc = "done"]
            /\ UNCHANGED <<rtasks, reconnect_task>>
       ELSE rtasks' = [rtasks EXCEPT ![k].pc = "done"]
            /\ reconnect_task' = NoTask
            /\ UNCHANGED setup
    /\ notified' = <<>>
    /\ UNCHANGED <<is_connected, is_closing, telnetclient, queues, logs, devices, gateway, traffic, model>>

\* an async_connect that creates the dispatcher task before it awaits
\* open_connection
ConnectFail_StartsDispatcher(k, e) ==
    /\ \/ Caller(k).pc = "connect" /\ gateway = "flaky"
       \/ Caller(k).pc = "negotiating" /\ clients[Caller(k).cl].transport = "down"
    /\ ptasks' = Append(ptasks, "running")
    /\ IF k = 0
       THEN setup' = [setup EXCEPT !.pc = "failed"]
            /\ UNCHANGED rtasks
       ELSE rtasks' = [rtasks EXCEPT ![k].pc = IF e \in Retryable THEN "sleep" ELSE "dead"]
            /\ UNCHANGED setup
    /\ notified' = <<>>
    /\ UNCHANGED <<engine, clients, queues, logs, devices, gateway, traffic, model>>

\* open_connection raises e: refused or timed out while opening, or the new
\* connection was lost before the negotiation ended
ConnectFail(k, e) ==
    /\ \/ Caller(k).pc = "connect" /\ gateway = "flaky"
       \/ Caller(k).pc = "negotiating" /\ clients[Caller(k).cl].transport = "down"
    /\ IF k = 0
       THEN setup' = [setup EXCEPT !.pc = "failed"]
            /\ UNCHANGED rtasks
       ELSE rtasks' = [rtasks EXCEPT ![k].pc = IF e \in Retryable THEN "sleep" ELSE "dead"]
            /\ UNCHANGED setup
    /\ notified' = <<>>
    /\ UNCHANGED <<engine, ptasks, clients, queues, logs, devices, gateway, traffic, model>>

\* _async_reconnect: asyncio.sleep(10) ends, the loop calls async_connect again
SleepDone(k) ==
    /\ k > 0
    /\ rtasks[k].pc = "sleep"
    /\ rtasks' = [rtasks EXCEPT ![k].pc = "connect"]
    /\ notified' = <<>>
    /\ UNCHANGED <<engine, setup, ptasks, clients, queues, logs, devices, gateway, traffic, model>>


\* the shell coroutine of a negotiated client: _async_run_shell and
\* _async_start_tasks
RunShell(c) ==
    /\ clients[c].stage = "shell_pending"
    /\ clients' = [clients EXCEPT ![c] =
                      [StopTasks(@) EXCEPT !.stage = "shell_done",
                                           !.send_task = "get",
                                           !.receive_task = "read"]]
    /\ notified' = <<>>
    /\ UNCHANGED <<engine, setup, rtasks, ptasks, queues, logs, devices, gateway, traffic, model>>

\* an on_connection_lost that returns at once when a reconnect task exists
ConnectionLost_Quiet(c) ==
    /\ clients[c].stage # "shell_pending"
    /\ \/ clients[c].transport = "closing"
       \/ clients[c].transport = "up" /\ gateway = "flaky"
    /\ clients' = [clients EXCEPT ![c] =
                      [StopTasks(@) EXCEPT !.transport = "down",
                                           !.ignored = LossIgnored]]
    /\ IF LossIgnored
       THEN /\ notified' = <<>>
            /\ UNCHANGED <<engine, rtasks>>
       ELSE /\ IF StartsReconnect
               THEN /\ connection' = NoTask
                    /\ rtasks' = Append(rtasks, [pc |-> "connect", cl |-> NoTask])
                    /\ reconnect_task' = Len(rtasks) + 1
                    /\ is_connected' = FALSE
                    /\ notified' = notify_subscriber(FALSE)
               ELSE /\ notified' = <<>>
                    /\ UNCHANGED <<connection, rtasks, reconnect_task, is_connected>>
            /\ UNCHANGED <<is_closing, telnetclient>>
    /\ UNCHANGED <<setup, ptasks, queues, logs, devices, gateway, traffic, model>>

\* _IFSEITelnetClient.connection_lost and IFSEI.on_connection_lost: the
\* transport of client c ended, by the peer or after a local close.  The
\* shell of a negotiated client starts in the loop iteration in which
\* open_connection returns, so no loss callback runs before it.
ConnectionLost(c) ==
    /\ clients[c].stage # "shell_pending"
    /\ \/ clients[c].transport = "closing"
       \/ clients[c].transport = "up" /\ gateway = "flaky"
    /\ clients' = [clients EXCEPT ![c] =
                      [StopTasks(@) EXCEPT !.transport = "down",
                                           !.ignored = LossIgnored]]
    /\ IF LossIgnored
       THEN /\ notified' = <<>>
            /\ UNCHANGED <<engine, rtasks>>
       ELSE /\ IF StartsReconnect
               THEN /\ connection' = NoTask
                    /\ rtasks' = Append(rtasks, [pc |-> "connect", cl |-> NoTask])
                    /\ reconnect_task' = Len(rtasks) + 1
               ELSE UNCHANGED <<connection, rtasks, reconnect_task>>
            /\ is_connected' = FALSE
            /\ notified' = notify_subscriber(FALSE)
            /\ UNCHANGED <<is_closing, telnetclient>>
    /\ UNCHANGED <<setup, ptasks, queues, logs, devices, gateway, traffic, model>>

\* IFSEI.async_close and _IFSEITelnetClient.async_close; without a client
\* the call ends with AttributeError after the flag is set
Close ==
    /\ is_closing' = TRUE
    /\ IF telnetclient = NoTask
       THEN UNCHANGED clients
       ELSE clients' = [clients EXCEPT ![telnetclient] =
                           [StopTasks(@) EXCEPT !.transport =
                               IF @ = "up" THEN "closing" ELSE @]]
    /\ notified' = <<>>
    /\ UNCHANGED <<connection, is_connected, reconnect_task, telnetclient,
                   setup, rtasks, ptasks, queues, logs, devices, gateway, traffic, model>>

\* IFSEI.async_send_command
Enqueue(text) ==
    /\ traffic = "commands"
    /\ enqueued < MaxCmds
    /\ send_queue' = Append(send_queue, [id |-> enqueued + 1, text |-> text,
                                         offline |-> connection = NoTask,
                                         epoch |-> Len(clients)])
    /\ enqueued' = enqueued + 1
    /\ notified' = <<>>
    /\ UNCHANGED <<engine, setup, rtasks, ptasks, clients, receive_queue, pushed,
                   logs, devices, gateway, traffic, model>>

\* a sender that takes the newest command
NextCommand_Newest == send_queue[Len(send_queue)]

\* the command send_queue.get() returns
NextCommand == Head(send_queue)

\* a sender that puts the command back when its write failed
QueueAfterSend_Requeue(ok) ==
    IF ok THEN Tail(send_queue) ELSE Append(Tail(send_queue), NextCommand)

\* send_queue once send_queue.get() returned; no branch of _async_send_data
\* or _async_send_command_tcp puts the command back
QueueAfterSend(ok) == Tail(send_queue)

\* a sender without the asyncio.sleep after the write
SendStep_NoDelay(c, ok) ==
    /\ clients[c].send_task = "get"
    /\ send_queue # <<>>
    /\ (Live(c) /\ gateway = "stable") => ok
    /\ send_queue' = QueueAfterSend(ok)
    /\ IF ok
       THEN /\ written' = Append(written, NextCommand)
            /\ clients' = [clients EXCEPT ![c].send_task = "get"]
       ELSE /\ written' = written
            /\ clients' = [clients EXCEPT ![c].send_task = "failed"]
    /\ notified' = <<>>
    /\ UNCHANGED <<engine, setup, rtasks, ptasks, receive_queue, enqueued, pushed,
                   dispatched, devices, gateway, traffic, model>>

\* _async_send_data: one turn of the loop up to asyncio.sleep.  The write
\* (_async_send_command_tcp or _send_command_udp) may raise, also while the
\* telnet transport is up; a gateway that came back for good takes every
\* write.  The exception ends the task: only CancelledError is caught.
SendStep(c, ok) ==
    /\ clients[c].send_task = "get"
    /\ send_queue # <<>>
    /\ (Live(c) /\ gateway = "stable") => ok
    /\ send_queue' = QueueAfterSend(ok)
    /\ IF ok
       THEN /\ written' = Append(written, NextCommand)
            /\ clients' = [clients EXCEPT ![c].send_task = "delay"]
       ELSE /\ written' = written
            /\ clients' = [clients EXCEPT ![c].send_task = "failed"]
    /\ notified' = <<>>
    /\ UNCHANGED <<engine, setup, rtasks, ptasks, receive_queue, enqueued, pushed,
                   dispatched, devices, gateway, traffic, model>>

\* a sender written without the "while True": it ends after one command
SendDelayDone_Once(c) ==
    /\ clients[c].send_task = "delay"
    /\ clients' = [clients EXCEPT ![c].send_task = "none"]
    /\ notified' = <<>>
    /\ UNCHANGED <<engine, setup, rtasks, ptasks, queues, logs, devices, gateway, traffic, model>>

\* _async_send_data: asyncio.sleep(IFSEI_ATTR_SEND_DELAY) ends
SendDelayDone(c) ==
    /\ clients[c].send_task = "delay"
    /\ clients' = [clients EXCEPT ![c].send_task = "get"]
    /\ notified' = <<>>
    /\ UNCHANGED <<engine, setup, rtasks, ptasks, queues, logs, devices, gateway, traffic, model>>

\* a reader that puts the response at the front of the queue
Push_Front(response) == <<[id |-> pushed + 1, text |-> response]>> \o receive_queue

\* receive_queue after put(response)
Push(response) == Append(receive_queue, [id |-> pushed + 1, text |-> response])

\* _async_receive_data: one turn of the loop, the reader got the frame raw
ReadFrame(c, raw) ==
    /\ clients[c].receive_task = "read"
    /\ Live(c)
    /\ traffic = "responses"
    /\ pushed < MaxMsgs
    /\ IF Frame(raw) # <<>>
       THEN receive_queue' = Push(Frame(raw)) /\ pushed' = pushed + 1
       ELSE UNCHANGED <<receive_queue, pushed>>
    /\ notified' = <<>>
    /\ UNCHANGED <<engine, setup, rtasks, ptasks, clients, send_queue, enqueued,
                   logs, devices, gateway, traffic, model>>

\* the message receive_queue.get() returns
NextResponse == Head(receive_queue)

\* _async_process_responses: one turn of the loop of dispatcher task p
Dispatch(p) ==
    /\ ptasks[p] = "running"
    /\ receive_queue # <<>>
    /\ receive_queue' = Tail(receive_queue)
    /\ dispatched' = Append(dispatched, NextResponse.id)
    /\ LET h == HandleResponse(NextResponse.text)
       IN  /\ is_connected' = h.is_connected
           /\ addr_state' = h.states
           /\ notified' = h.notes
           /\ ptasks' = IF h.raised THEN [ptasks EXCEPT ![p] = AfterHandlerError]
                        ELSE ptasks
    /\ UNCHANGED <<connection, is_closing, reconnect_task, telnetclient, setup,
                   rtasks, clients, send_queue, enqueued, pushed, written,
                   callback_, gateway, traffic, model>>

\* Device.add_subscriber, called by the entities once the setup connected
AddSubscriber(dev, cb) ==
    /\ setup.pc = "done"
    /\ traffic = "responses"
    /\ callback_[dev] # cb
    /\ callback_' = [callback_ EXCEPT ![dev] = cb]
    /\ notified' = <<>>
    /\ UNCHANGED <<engine, setup, rtasks, ptasks, clients, queues, logs,
                   addr_state, gateway, traffic, model>>

\* Device.remove_subscriber
RemoveSubscriber(dev) ==
    /\ callback_[dev] # NoTask
    /\ callback_' = [callback_ EXCEPT ![dev] = NoTask]
    /\ notified' = <<>>
    /\ UNCHANGED <<engine, setup, rtasks, ptasks, clients, queues, logs,
                   addr_state, gateway, traffic, model>>

\* the gateway comes back for good: from now on it accepts every connection
\* and drops none
Stabilize ==
    /\ gateway = "flaky"
    /\ gateway' = "stable"
    /\ notified' = <<>>
    /\ UNCHANGED <<engine, setup, rtasks, ptasks, clients, queues, logs, devices,
                   traffic, model>>

Next ==
    \/ StartConnect
    \/ \E k \in Callers : ConnectEstablish(k)
    \/ \E k \in Callers : ConnectReturn(k)
    \/ \E k \in Callers, e \in ConnectErrors : ConnectFail(k, e)
    \/ \E k \in Callers : SleepDone(k)
    \/ \E c \in ClientIds : RunShell(c)
    \/ \E c \in ClientIds : ConnectionLost(c)
    \/ Close
    \/ \E text \in RawCommands : Enqueue(text)
    \/ \E c \in ClientIds, ok \in BOOLEAN : SendStep(c, ok)
    \/ \E c \in ClientIds : SendDelayDone(c)
    \/ \E c \in ClientIds, raw \in RawFrames : ReadFrame(c, raw)
    \/ \E p \in 1..Len(ptasks) : Dispatch(p)
    \/ \E dev \in DeviceIds, cb \in Callbacks : AddSubscriber(dev, cb)
    \/ \E dev \in DeviceIds : RemoveSubscriber(dev)
    \/ Stabilize

Spec == Init /\ [][Next]_vars

TypeOK ==
    /\ connection \in 0..MaxClients
    /\ is_connected \in BOOLEAN
    /\ is_closing \in BOOLEAN
    /\ reconnect_task \in 0..Len(rtasks)
    /\ telnetclient \in 0..Len(clients)
    /\ Len(clients) <= MaxClients
    /\ Len(written) <= MaxCmds
    /\ Len(dispatched) <= MaxMsgs


\* ---------------------------------------------------------- fairness
\* asyncio runs every task that is ready: the reconnect loop, the shell of
\* a new client, the sender loop and the pending loss callback of a closed
\* transport all get their turn.
ReconnectStep ==
    \E k \in Callers :
        \/ ConnectEstablish(k)
        \/ ConnectReturn(k)
        \/ SleepDone(k)
        \/ \E e \in ConnectErrors : ConnectFail(k, e)

SenderStep == \E c \in ClientIds : SendStep(c, TRUE) \/ SendDelayDone(c)

ShellStep == \E c \in ClientIds : RunShell(c)

FairSpec ==
    /\ Spec
    /\ WF_vars(ReconnectStep)
    /\ WF_vars(ShellStep)
    /\ WF_vars(SenderStep)


\* ------------------------------------------------------- device model
\* The host's calls into the device manager and the messages handled by
\* the dispatcher, on a connected engine, for every configuration file.

\* the queue entry IFSEI.async_send_command puts for the n-th command
Command(n, text) ==
    [id |-> n, text |-> text, offline |-> connection = NoTask,
     epoch |-> Len(clients)]

\* send_queue after the texts were put, one async_send_command each
RECURSIVE PutAll(_, _, _)
PutAll(queue, n, texts) ==
    IF texts = <<>> THEN queue
    ELSE PutAll(Append(queue, Command(n + 1, Head(texts))), n + 1, Tail(texts))

\* a command text with a two-digit channel field
ZoneIntensityCommand_WideChannel(module_address, channel, intensity) ==
    <<"Z">> \o ZeroFillInt(module_address, 2) \o ZeroFillInt(channel, 2)
        \o <<"L">> \o ZeroFillInt(intensity, 3) \o <<"T", "1">>

\* IFSEI.async_set_zone_intensity: f"Z{module_address:02}{channel:01}L{intensity:03}T1"
ZoneIntensityCommand(module_address, channel, intensity) ==
    <<"Z">> \o ZeroFillInt(module_address, 2) \o ZeroFillInt(channel, 1)
        \o <<"L">> \o ZeroFillInt(intensity, 3) \o <<"T", "1">>

\* IFSEI.async_set_shader_state: f"C{module_address:04}1", module_address a str
ShaderStateCommand(module_address) ==
    <<"C">> \o ZeroFillStr(module_address, 4) \o <<"1">>

\* a manager that accepts every list of at least four colors
ColorsValid_AtLeast4(colors) == Len(colors) >= 4

\* DeviceManager.async_update_light_state: "if len(colors) != 4: raise"
ColorsValid(colors) == Len(colors) = 4

\* a manager that takes green and blue from each other's position
ColorValue_Swapped(name, colors) ==
    IF name = "r" THEN colors[1]
    ELSE IF name = "g" THEN colors[3]
    ELSE IF name = "b" THEN colors[2]
    ELSE IF name = "w" THEN colors[4]
    ELSE 0

\* DeviceManager.async_update_light_state: the value sent to an address
ColorValue(name, colors) ==
    IF name = "r" THEN colors[1]
    ELSE IF name = "g" THEN colors[2]
    ELSE IF name = "b" THEN colors[3]
    ELSE IF name = "w" THEN colors[4]
    ELSE 0

\* a manager that falls back to its first light for an unknown id
FirstLight_OrDefault(device_id) ==
    IF \E i \in 1..Len(lights) : lights[i].unique_id = device_id
    THEN CHOOSE i \in 1..Len(lights) :
            /\ lights[i].unique_id = device_id
            /\ \A k \in 1..(i - 1) : lights[k].unique_id # device_id
    ELSE 1

\* the first light with the id, 0 when there is none
FirstLight(device_id) ==
    IF \E i \in 1..Len(lights) : lights[i].unique_id = device_id
    THEN CHOOSE i \in 1..Len(lights) :
            /\ lights[i].unique_id = device_id
            /\ \A k \in 1..(i - 1) : lights[k].unique_id # device_id
    ELSE 0

\* the command texts async_update_light_state sends for a light
LightCommands(light, colors) ==
    [j \in 1..Len(light.address) |->
        ZoneIntensityCommand(light.address[j].module, light.address[j].channel,
                             ColorValue(light.address[j].name, colors))]

\* the command texts async_update_cover_state sends: one for every cover
\* that has the id
RECURSIVE CoverCommands(_, _, _)
CoverCommands(i, device_id, address) ==
    IF i > Len(covers) THEN <<>>
    ELSE (IF covers[i].unique_id = device_id
          THEN <<ShaderStateCommand(address)>> ELSE <<>>)
         \o CoverCommands(i + 1, device_id, address)

Called(op, args, raised) ==
    [n |-> call.n + 1, op |-> op, args |-> args, raised |-> raised]

\* DeviceManager.async_handle_light_state_change
async_handle_light_state_change(module_number, channel, state) ==
    /\ call.n < MaxCalls
    /\ call' = Called("zone_update", <<module_number, channel, state>>, FALSE)
    /\ addr_state' = ZoneStates(module_number, channel, state)
    /\ notified' = ZoneNotes(1, module_number, channel, state)
    /\ UNCHANGED <<engine, setup, rtasks, ptasks, clients, queues, logs,
                   callback_, gateway, traffic, lights, covers>>

\* IFSEI._async_handle_response, called by the dispatcher task with a
\* message of the inbound queue
async_handle_response(response) ==
    /\ call.n < MaxCalls
    /\ ptasks # <<>> /\ ptasks[1] = "running"
    /\ LET h == HandleResponse(response)
       IN  /\ call' = Called("handle", <<response>>, h.raised)
           /\ is_connected' = h.is_connected
           /\ addr_state' = h.states
           /\ notified' = h.notes
           /\ ptasks' = IF h.raised THEN [ptasks EXCEPT ![1] = AfterHandlerError]
                        ELSE ptasks
    /\ UNCHANGED <<connection, is_closing, reconnect_task, telnetclient, setup,
                   rtasks, clients, queues, logs, callback_, gateway, traffic,
                   lights, covers>>

\* DeviceManager.async_update_light_state
async_update_light_state(device_id, colors) ==
    /\ call.n < MaxCalls
    /\ IF ~ColorsValid(colors)
       THEN /\ call' = Called("update_light", <<device_id, colors>>, TRUE)
            /\ UNCHANGED <<send_queue, enqueued>>
       ELSE LET i == FirstLight(device_id)
                texts == IF i = 0 THEN <<>> ELSE LightCommands(lights[i], colors)
            IN  /\ call' = Called("update_light", <<device_id, colors>>, FALSE)
                /\ send_queue' = PutAll(send_queue, enqueued, texts)
                /\ enqueued' = enqueued + Len(texts)
    /\ notified' = <<>>
    /\ UNCHANGED <<engine, setup, rtasks, ptasks, clients, receive_queue, pushed,
                   logs, devices, gateway, traffic, lights, covers>>

\* DeviceManager.async_update_cover_state
async_update_cover_state(device_id, address) ==
    /\ call.n < MaxCalls
    /\ call' = Called("update_cover", <<device_id, address>>, FALSE)
    /\ LET texts == CoverCommands(1, device_id, address)
       IN  /\ send_queue' = PutAll(send_queue, enqueued, texts)
           /\ enqueued' = enqueued + Len(texts)
    /\ notified' = <<>>
    /\ UNCHANGED <<engine, setup, rtasks, ptasks, clients, receive_queue, pushed,
                   logs, devices, gateway, traffic, lights, covers>>

\* IFSEI.async_set_zone_intensity
async_set_zone_intensity(module_address, channel, intensity) ==
    /\ call.n < MaxCalls
    /\ call' = Called("set_zone", <<module_address, channel, intensity>>, FALSE)
    /\ send_queue' = PutAll(send_queue, enqueued,
                            <<ZoneIntensityCommand(module_address, channel, intensity)>>)
    /\ enqueued' = enqueued + 1
    /\ notified' = <<>>
    /\ UNCHANGED <<engine, setup, rtasks, ptasks, clients, receive_queue, pushed,
                   logs, devices, gateway, traffic, lights, covers>>

\* Python None as the result of a lookup
NoDevice == "None"

\* DeviceManager.get_device_by_id: the unique_id of the device returned;
\* the loop runs over self._lights and falls off its end with None
get_device_by_id(id) ==
    IF FirstLight(id) = 0 THEN NoDevice ELSE lights[FirstLight(id)].unique_id

\* a call of get_device_by_id by the host
LookupDevice(id) ==
    /\ call.n < MaxCalls
    /\ call' = Called("lookup", <<id, get_device_by_id(id)>>, FALSE)
    /\ notified' = <<>>
    /\ UNCHANGED <<engine, setup, rtasks, ptasks, clients, queues, logs,
                   devices, gateway, traffic, lights, covers>>

\* the engine after async_setup_entry: devices loaded from a configuration
\* file, the first connection made, its shell started, nothing received yet
DevInit ==
    /\ \E cfg \in Configs : lights = cfg.lights /\ covers = cfg.covers
    /\ call = NoCall
    /\ connection = 1
    /\ is_connected = FALSE
    /\ is_closing = FALSE
    /\ reconnect_task = NoTask
    /\ telnetclient = 1
    /\ setup = [pc |-> "done", cl |-> 1]
    /\ rtasks = <<>>
    /\ ptasks = <<"running">>
    /\ clients = <<[NewClient EXCEPT !.stage = "shell_done",
                                     !.send_task = "get",
                                     !.receive_task = "read"]>>
    /\ send_queue = <<>>
    /\ receive_queue = <<>>
    /\ enqueued = 0
    /\ pushed = 0
    /\ written = <<>>
    /\ dispatched = <<>>
    /\ addr_state = [i \in 1..Len(lights) |-> [j \in 1..Len(lights[i].address) |-> 0]]
    /\ callback_ = [d \in DeviceIds |-> NoTask]
    /\ notified = <<>>
    /\ gateway = "flaky"
    /\ traffic = "responses"

DevNext ==
    \/ \E z \in ZoneUpdates : async_handle_light_state_change(z[1], z[2], z[3])
    \/ \E response \in Responses : async_handle_response(response)
    \/ \E id \in CallIds, colors \in ColorLists : async_update_light_state(id, colors)
    \/ \E id \in CallIds, address \in MoveAddresses : async_update_cover_state(id, address)
    \/ \E z \in ZoneCommands : async_set_zone_intensity(z[1], z[2], z[3])
    \/ \E id \in CallIds : LookupDevice(id)
    \/ \E dev \in DeviceIds, cb \in Callbacks : AddSubscriber(dev, cb)
    \/ \E dev \in DeviceIds : RemoveSubscriber(dev)

DevSpec == DevInit /\ [][DevNext]_vars

\* ------------------------------------------------------- inbound path
\* The reader and the dispatcher of a connected engine, with entities that
\* register and remove their callbacks meanwhile.

\* the characters the gateway sends up to and including a terminator
Streams ==
    { <<"*", "I", "F", "S", "E", "I", "O", "N", "\r", ">">>,
      <<"*", "Z", "0", "5", "0", "1", "L", "0", "7", "5", "\r", ">">>,
      <<"*", "Z", "0", "5", "0", "1", "L", "0", "7", "5", ">">>,
      <<"*", "C", "0", "0", "0", "1", "1", "\r", ">">> }

\* callbacks of the entities: an entity that is added again registers a
\* new bound method
Subscribers == {1, 2}

InInit == DevInit /\ lights = Lights /\ covers = Covers

InNext ==
    \/ \E c \in ClientIds, raw \in Streams : ReadFrame(c, raw)
    \/ \E p \in 1..Len(ptasks) : Dispatch(p)
    \/ \E dev \in DeviceIds, cb \in Subscribers : AddSubscriber(dev, cb)
    \/ \E dev \in DeviceIds : RemoveSubscriber(dev)

InSpec == InInit /\ [][InNext]_vars

\* ------------------------------------------------------- reader loop
\* The reader character by character over connects, losses and reconnects:
\* every character carries the client whose stream reader returned it.

\* characters the gateway sends
Chars == {"E", "\r", ">"}

\* RESPONSE_TERMINATOR
Terminator == ">"

\* a reader whose buffer outlives the connection: a new client goes on with
\* what the previous client had accumulated
Accumulated_Spliced(c) ==
    IF clients[c].response = <<>> /\ c > 1 THEN clients[c - 1].response
    ELSE clients[c].response

\* the local variable response of the call of _async_read_until_prompt
\* that the receive task of client c is in
Accumulated(c) == clients[c].response

\* the text of tagged characters
Text(tagged) == [i \in 1..Len(tagged) |-> tagged[i].ch]

\* the clients whose stream readers returned the characters
Origins(tagged) == {tagged[i].cl : i \in 1..Len(tagged)}

\* _async_read_until_prompt and _async_receive_data: reader.read(1) of
\* client c returns the character ch; with the terminator the call returns
\* and a non-empty message is put on the inbound queue
ReadChar(c, ch) ==
    /\ clients[c].receive_task = "read"
    /\ Live(c)
    /\ pushed < MaxMsgs
    /\ Len(Accumulated(c)) < MaxChars
    /\ LET response == Append(Accumulated(c), [ch |-> ch, cl |-> c])
       IN  IF ch # Terminator
           THEN /\ clients' = [clients EXCEPT ![c].response = response]
                /\ UNCHANGED <<receive_queue, pushed>>
           ELSE /\ clients' = [clients EXCEPT ![c].response = <<>>]
                /\ IF Frame(Text(response)) # <<>>
                   THEN /\ receive_queue' =
                              Append(receive_queue,
                                     [id |-> pushed + 1,
                                      text |-> Frame(Text(response)),
                                      origins |-> Origins(response)])
                        /\ pushed' = pushed + 1
                   ELSE UNCHANGED <<receive_queue, pushed>>
    /\ notified' = <<>>
    /\ UNCHANGED <<engine, setup, rtasks, ptasks, send_queue, enqueued,
                   logs, devices, gateway, traffic, model>>

ReadInit == Init /\ traffic = "responses"

ReadNext ==
    \/ StartConnect
    \/ \E k \in Callers : ConnectEstablish(k)
    \/ \E k \in Callers : ConnectReturn(k)
    \/ \E k \in Callers, e \in ConnectErrors : ConnectFail(k, e)
    \/ \E k \in Callers : SleepDone(k)
    \/ \E c \in ClientIds : RunShell(c)
    \/ \E c \in ClientIds : ConnectionLost(c)
    \/ \E c \in ClientIds, ch \in Chars : ReadChar(c, ch)
    \/ \E p \in 1..Len(ptasks) : Dispatch(p)

ReadSpec == ReadInit /\ [][ReadNext]_vars

\* ------------------------------------------------------- two engines
\* Two IFSEI objects of one process, each connected, with its own client,
\* sender, reader and dispatcher: engine e has clients[e] and ptasks[e].
\* A queue entry carries the Queue object it was put in and the engine that
\* put it; the logs carry the engine that took it.  The messages read are
\* error lines, which a dispatcher only logs.

\* IFSEI objects of the process: the one of the config flow's
\* ScenarioValidator and the one of async_setup_entry
Engines == {1, 2}

\* error lines the gateways send
ErrorFrames == { <<"E", "1", "\r", ">">>, <<"E", "3", "0", "5", "\r", ">">> }

\* a QueueManager whose fields are made per instance (default_factory)
QueueManager_PerInstance(e) == e

\* the Queue objects QueueManager() of engine e refers to: the dataclass
\* defaults "send_queue: Queue = Queue()" and "receive_queue: Queue =
\* Queue()" are evaluated once, in the class body, and every instance gets
\* these two objects
QueueManager(e) == 0

\* position of the entry that get() on the Queue object q returns, 0 when
\* that queue is empty
FirstOf(queue, q) ==
    IF \E i \in 1..Len(queue) : queue[i].q = q
    THEN CHOOSE i \in 1..Len(queue) :
            /\ queue[i].q = q
            /\ \A k \in 1..(i - 1) : queue[k].q # q
    ELSE 0

Without(queue, i) == SubSeq(queue, 1, i - 1) \o SubSeq(queue, i + 1, Len(queue))

\* IFSEI.async_send_command of engine e
EngineEnqueue(e, text) ==
    /\ enqueued < MaxCmds
    /\ send_queue' = Append(send_queue, [id |-> enqueued + 1, text |-> text,
                                         q |-> QueueManager(e), owner |-> e])
    /\ enqueued' = enqueued + 1
    /\ notified' = <<>>
    /\ UNCHANGED <<engine, setup, rtasks, ptasks, clients, receive_queue, pushed,
                   logs, devices, gateway, traffic, model>>

\* _async_send_data of the client of engine e: get, write, start the delay
EngineSend(e) ==
    /\ clients[e].send_task = "get"
    /\ FirstOf(send_queue, QueueManager(e)) # 0
    /\ LET i == FirstOf(send_queue, QueueManager(e))
       IN  /\ written' = Append(written, [id |-> send_queue[i].id,
                                          owner |-> send_queue[i].owner,
                                          by |-> e])
           /\ send_queue' = Without(send_queue, i)
    /\ clients' = [clients EXCEPT ![e].send_task = "delay"]
    /\ notified' = <<>>
    /\ UNCHANGED <<engine, setup, rtasks, ptasks, receive_queue, enqueued, pushed,
                   dispatched, devices, gateway, traffic, model>>

\* _async_receive_data of the client of engine e: the frame raw was read
EngineRead(e, raw) ==
    /\ clients[e].receive_task = "read"
    /\ pushed < MaxMsgs
    /\ Frame(raw) # <<>>
    /\ receive_queue' = Append(receive_queue, [id |-> pushed + 1, text |-> Frame(raw),
                                               q |-> QueueManager(e), owner |-> e])
    /\ pushed' = pushed + 1
    /\ notified' = <<>>
    /\ UNCHANGED <<engine, setup, rtasks, ptasks, clients, send_queue, enqueued,
                   logs, devices, gateway, traffic, model>>

\* _async_process_responses of engine e: get and handle one message
EngineDispatch(e) ==
    /\ ptasks[e] = "running"
    /\ FirstOf(receive_queue, QueueManager(e)) # 0
    /\ LET i == FirstOf(receive_queue, QueueManager(e))
           h == HandleResponse(receive_queue[i].text)
       IN  /\ dispatched' = Append(dispatched, [id |-> receive_queue[i].id,
                                                owner |-> receive_queue[i].owner,
                                                by |-> e])
           /\ receive_queue' = Without(receive_queue, i)
           /\ ptasks' = IF h.raised THEN [ptasks EXCEPT ![e] = AfterHandlerError]
                        ELSE ptasks
           /\ notified' = h.notes
    /\ UNCHANGED <<engine, setup, rtasks, clients, send_queue, enqueued, pushed,
                   written, devices, gateway, traffic, model>>

\* both engines constructed and connected, their loops started
PairInit ==
    /\ lights = Lights
    /\ covers = Covers
    /\ call = NoCall
    /\ connection = 1
    /\ is_connected = FALSE
    /\ is_closing = FALSE
    /\ reconnect_task = NoTask
    /\ telnetclient = 1
    /\ setup = [pc |-> "done", cl |-> 1]
    /\ rtasks = <<>>
    /\ ptasks = [e \in Engines |-> "running"]
    /\ clients = [e \in Engines |-> [NewClient EXCEPT !.stage = "shell_done",
                                                      !.send_task = "get",
                                                      !.receive_task = "read"]]
    /\ send_queue = <<>>
    /\ receive_queue = <<>>
    /\ enqueued = 0
    /\ pushed = 0
    /\ written = <<>>
    /\ dispatched = <<>>
    /\ addr_state = [i \in 1..Len(lights) |-> [j \in 1..Len(lights[i].address) |-> 0]]
    /\ callback_ = [d \in DeviceIds |-> NoTask]
    /\ notified = <<>>
    /\ gateway = "stable"
    /\ traffic = "commands"

PairNext ==
    \/ \E e \in Engines, text \in RawCommands : EngineEnqueue(e, text)
    \/ \E e \in Engines : EngineSend(e)
    \/ \E e \in Engines : SendDelayDone(e)
    \/ \E e \in Engines, raw \in ErrorFrames : EngineRead(e, raw)
    \/ \E e \in Engines : EngineDispatch(e)

PairSpec == PairInit /\ [][PairNext]_vars

\* ------------------------------------------------------------- claims
ActivePc == {"connect", "negotiating", "sleep"}

ActiveLoops == {k \in 1..Len(rtasks) : rtasks[k].pc \in ActivePc}

InFlight == {k \in 1..Len(rtasks) : rtasks[k].pc \in {"connect", "negotiating"}}

\* C1: at most one reconnect loop is active at any time, so at most one
\* connect attempt of a reconnect loop is in flight, however many loss
\* signals arrive while the engine is not closing.
C1_SingleFlight ==
    /\ Cardinality(ActiveLoops) <= 1
    /\ Cardinality(InFlight) <= 1

\* a loss signal arrived while a reconnect loop was running: the client that
\* loop opened is already down and the loop is still the only one
C1_Witness ==
    /\ ~is_closing
    /\ \E k \in 1..Len(rtasks) :
          /\ rtasks[k].pc = "negotiating"
          /\ clients[rtasks[k].cl].transport = "down"
          /\ ~clients[rtasks[k].cl].ignored

\* some transport is up and its sender and reader loops run
Recovered ==
    \E c \in ClientIds :
        /\ Live(c)
        /\ connection = c
        /\ Running(clients[c].send_task)
        /\ Running(clients[c].receive_task)

\* the engine lost its transport without having been closed
LostUnintended ==
    /\ ~is_closing
    /\ \E c \in ClientIds : clients[c].transport = "down" /\ ~clients[c].ignored
    /\ \A c \in ClientIds : ~Live(c)

\* C2: after an unintentional loss, once the gateway accepts connections
\* and keeps them, the engine eventually has a live transport with sender
\* and reader running (or has been closed meanwhile).
C2_EventuallyRecovers ==
    (LostUnintended /\ gateway = "stable" /\ Len(clients) < MaxClients)
        ~> (Recovered \/ is_closing)

\* C3: a command leaves the outbound queue only as the head popped by a
\* sender loop; no loss, cancellation, close or reconnect drops one.
C3_OnlySenderPops ==
    [][send_queue' # send_queue =>
          \/ \E cmd \in {send_queue'[i] : i \in 1..Len(send_queue')} :
                send_queue' = Append(send_queue, cmd)
          \/ /\ send_queue # <<>>
             /\ send_queue' = Tail(send_queue)
             /\ \E c \in ClientIds :
                   /\ clients[c].send_task = "get"
                   /\ clients'[c].send_task \in {"delay", "failed"}]_vars

\* a command enqueued before the present client existed is still queued
\* after a loss and a completed reconnect
C3_Witness ==
    /\ \E i \in 1..Len(send_queue) : send_queue[i].epoch < Len(clients)
    /\ \E c \in ClientIds : clients[c].transport = "down"
    /\ \E k \in 1..Len(rtasks) : rtasks[k].pc = "done"
    /\ connection # NoTask

WasWritten(id) == \E i \in 1..Len(written) : written[i].id = id

Queued(id) == \E i \in 1..Len(send_queue) : send_queue[i].id = id /\ send_queue[i].offline

\* a reconnect succeeded, the connection stays up and its sender loop was
\* not ended by a failed write
ReconnectedForGood ==
    /\ gateway = "stable"
    /\ \E k \in 1..Len(rtasks) :
          /\ rtasks[k].pc = "done"
          /\ Live(rtasks[k].cl)
          /\ clients[rtasks[k].cl].send_task # "failed"

C5_WriteOrder ==
    \A i, j \in 1..Len(written) : i < j => written[i].id < written[j].id

\* two commands were written, the second one on a later connection
C5_Witness ==
    /\ Len(written) >= 2
    /\ \E c \in ClientIds : clients[c].transport = "down"
    /\ \E k \in 1..Len(rtasks) : rtasks[k].pc = "done"

\* C6: messages are dispatched in the order the reader pushed them, each
\* handled in one step, also when a reconnect started another dispatcher.
C6_DispatchOrder ==
    /\ \A i \in 1..Len(dispatched) : dispatched[i] = i
    /\ \A i \in 1..Len(receive_queue) : receive_queue[i].id = Len(dispatched) + i

\* two messages were dispatched after a reconnect
C6_Witness ==
    /\ Len(dispatched) >= 2
    /\ Len(ptasks) >= 2

\* the zone message at the head of the inbound queue has a non-numeric field
MalformedZone(response) ==
    /\ StartsWith(response, <<"*", "Z">>)
    /\ \/ ~PyInt(Slice(response, 2, 4)).ok
       \/ ~PyInt(Slice(response, 4, 6)).ok
       \/ ~PyInt(Slice(response, 7, 10)).ok

\* C7: dispatching a *Z message with a non-numeric field changes no device
\* state, notifies nobody and leaves the dispatcher loop running.
C7_MalformedZoneDropped ==
    [][(/\ receive_queue # <<>>
        /\ dispatched' # dispatched
        /\ MalformedZone(Head(receive_queue).text))
       => (/\ addr_state' = addr_state
           /\ notified' = <<>>
           /\ ptasks' = ptasks)]_vars

\* C8: once close() was called no reconnect loop is active.
C8_ClosedIsTerminal == is_closing => ActiveLoops = {}

\* C9: after close() nothing is written to a transport and no inbound
\* message is dispatched.
C9_ClosedIsQuiet ==
    [][is_closing => (written' = written /\ dispatched' = dispatched)]_vars

\* C10: a loss signal after close() starts no reconnect loop, leaves the
\* connection handle and the connected flag alone and notifies nobody.
C10_LossAfterCloseIgnored ==
    [][(/\ is_closing
        /\ \E c \in ClientIds :
              clients[c].transport # "down" /\ clients'[c].transport = "down")
       => (/\ UNCHANGED <<reconnect_task, rtasks, connection, is_connected>>
           /\ notified' = <<>>)]_vars

\* a loss signal was ignored while a subscriber was registered
C10_Witness ==
    /\ is_closing
    /\ \E c \in ClientIds : clients[c].transport = "down" /\ clients[c].ignored
    /\ \E d \in DeviceIds : callback_[d] # NoTask

\* a write raised in the sender loop of some client
WriteFailed ==
    \E c \in ClientIds :
        clients[c].send_task = "get" /\ clients'[c].send_task = "failed"

\* C11: a failed write reaches the connection manager as a loss signal:
\* when the engine is not closing, a reconnect loop runs after the step.
C11_WriteFailureSignalsLoss ==
    [][(WriteFailed /\ ~is_closing) => reconnect_task' # NoTask]_vars

\* ids of the commands popped so far
Popped == 1..(enqueued - Len(send_queue))

\* C12: no command is written twice, and a command that was popped is never
\* in the queue again, whether its write succeeded, failed or its sender
\* was cancelled afterwards.
C12_AtMostOnce ==
    /\ \A i, j \in 1..Len(written) : written[i].id = written[j].id => i = j
    /\ \A i \in 1..Len(written) : written[i].id \in Popped
    /\ \A i \in 1..Len(send_queue) : send_queue[i].id \notin Popped

\* a popped command was lost by a failed write, and a later command was
\* written by another sender
C12_Witness ==
    /\ \E c \in ClientIds : clients[c].send_task = "failed"
    /\ \E i \in 1..Len(written) :
          \E id \in Popped : id < written[i].id /\ ~WasWritten(id)

\* the position of caller k after the step
CallerPc_Next(k) == IF k = 0 THEN setup'.pc ELSE rtasks'[k].pc

\* an async_connect call ended with the exception of open_connection
ConnectRaised ==
    \E k \in Callers :
        /\ Caller(k).pc \in {"connect", "negotiating"}
        /\ CallerPc_Next(k) \in {"failed", "sleep", "dead"}

\* C13: a connect() that fails raises to its caller and does nothing else:
\* no dispatcher, sender or reader is started, the connection handle and the
\* reconnect reference stay as they were, and the failed setup call makes
\* no further attempt.
C13_FailedConnectIsInert ==
    [][/\ ConnectRaised =>
            UNCHANGED <<connection, reconnect_task, ptasks, clients,
                        is_connected, is_closing>>
       /\ setup.pc = "failed" => setup'.pc = "failed"]_vars

\* the host's setup call failed: nothing was started and no loop retries
C13_Witness ==
    /\ setup.pc = "failed"
    /\ connection = NoTask
    /\ reconnect_task = NoTask
    /\ ptasks = <<>>
    /\ clients = <<>>

\* ------------------------------------------------- device-model claims
\* the step is the host's call op into the device manager
Calls(op) == call'.n # call.n /\ call'.op = op

ColorNames == {"r", "g", "b", "w"}

\* the addresses of light i that are exactly (module m, channel c)
MatchingAddresses(i, m, c) ==
    {j \in 1..Len(lights[i].address) :
        lights[i].address[j].module = m /\ lights[i].address[j].channel = c}

\* the positions of the subscriber calls made to device dev in notes
NotesTo(notes, dev) == {k \in 1..Len(notes) : notes[k].dev = dev}

\* C14: a zone update sets the cached intensity of exactly the addresses
\* with that module and channel, in every light, and calls the subscriber
\* of each light once per matching address with {address name: intensity};
\* nothing else changes and nobody else is called.
C14_ZoneUpdateExact ==
    [][Calls("zone_update") =>
        LET m == call'.args[1]
            c == call'.args[2]
            state == call'.args[3]
        IN  /\ \A i \in 1..Len(lights) : \A j \in 1..Len(lights[i].address) :
                  addr_state'[i][j] =
                      IF j \in MatchingAddresses(i, m, c) THEN state
                      ELSE addr_state[i][j]
            /\ \A k \in 1..Len(notified') :
                  /\ notified'[k].dev \in LightIds
                  /\ notified'[k].key \in ColorNames
                  /\ notified'[k].val = state
            /\ \A i \in 1..Len(lights) : \A name \in ColorNames :
                  Cardinality({k \in NotesTo(notified', lights[i].unique_id) :
                                  notified'[k].key = name})
                  = IF callback_[lights[i].unique_id] = NoTask THEN 0
                    ELSE Cardinality({j \in MatchingAddresses(i, m, c) :
                                         lights[i].address[j].name = name})
            /\ UNCHANGED <<callback_, send_queue, is_connected>>]_vars

\* two lights share the updated zone and both were told, while an address
\* of another zone keeps the intensity of an earlier update
C14_Witness ==
    /\ call.op = "zone_update"
    /\ Len(notified) = 2
    /\ notified[1].dev # notified[2].dev
    /\ \E i \in 1..Len(lights) : \E j \in 1..Len(lights[i].address) :
          /\ j \notin MatchingAddresses(i, call.args[1], call.args[2])
          /\ addr_state[i][j] # 0

\* a zone status line: *Z, two digits, two digits, L, three digits
IsZoneLine(r) ==
    /\ Len(r) = 10
    /\ r[1] = "*" /\ r[2] = "Z" /\ r[7] = "L"
    /\ \A k \in {3, 4, 5, 6, 8, 9, 10} : IsDigit(r[k])

ZoneLine == <<"*", "Z", "0", "5", "0", "1", "L", "0", "7", "5">>

\* C15: for a zone status line the dispatcher runs the zone update with the
\* numbers the three digit fields spell; *Z0501L075 tells the subscriber of
\* a light with the address (5, 1, w) the value {w: 75}.
C15_ZoneLineForwarded ==
    [][(Calls("handle") /\ IsZoneLine(call'.args[1])) =>
        LET r == call'.args[1]
            m == 10 * DigitVal(r[3]) + DigitVal(r[4])
            c == 10 * DigitVal(r[5]) + DigitVal(r[6])
            state == 100 * DigitVal(r[8]) + 10 * DigitVal(r[9]) + DigitVal(r[10])
        IN  /\ ~call'.raised
            /\ addr_state' = ZoneStates(m, c, state)
            /\ notified' = ZoneNotes(1, m, c, state)
            /\ r = ZoneLine =>
                  \A i \in 1..Len(lights) : \A j \in 1..Len(lights[i].address) :
                      (/\ lights[i].address[j] = [module |-> 5, channel |-> 1, name |-> "w"]
                       /\ callback_[lights[i].unique_id] # NoTask)
                      => \E k \in NotesTo(notified', lights[i].unique_id) :
                            notified'[k].key = "w" /\ notified'[k].val = 75]_vars

\* the dispatcher handled *Z0501L075 and the subscriber of light l1 got w = 75
C15_Witness ==
    /\ call.op = "handle"
    /\ call.args[1] = ZoneLine
    /\ \E k \in NotesTo(notified, "l1") : notified[k].key = "w" /\ notified[k].val = 75
    /\ addr_state[1][1] = 75

\* a scene line: *C, a four-character address, 1
IsSceneLine(r) == Len(r) = 7 /\ r[1] = "*" /\ r[2] = "C" /\ r[7] = "1"

CoverAddresses(i) == {covers[i].up, covers[i].stop, covers[i].down}

NoSharedAddress ==
    \A i, j \in 1..Len(covers) :
        i # j => CoverAddresses(i) \cap CoverAddresses(j) = {}

\* C16: when no two covers share an address, a scene line calls the
\* subscriber of exactly the cover that has the address, once, with the
\* command of the field that matched; no light is called and no state is
\* cached.
C16_SceneLineNotifiesOwner ==
    [][(Calls("handle") /\ IsSceneLine(call'.args[1]) /\ NoSharedAddress) =>
        LET a == SubSeq(call'.args[1], 3, 6)
        IN  /\ ~call'.raised
            /\ UNCHANGED <<addr_state, is_connected, callback_>>
            /\ \A k \in 1..Len(notified') :
                  /\ notified'[k].dev \in CoverIds
                  /\ notified'[k].key = "command"
            /\ \A i \in 1..Len(covers) :
                  /\ Cardinality(NotesTo(notified', covers[i].unique_id))
                     = IF a \in CoverAddresses(i) /\ callback_[covers[i].unique_id] # NoTask
                       THEN 1 ELSE 0
                  /\ \A k \in NotesTo(notified', covers[i].unique_id) :
                        \/ notified'[k].val = "up" /\ a = covers[i].up
                        \/ notified'[k].val = "stop" /\ a = covers[i].stop
                        \/ notified'[k].val = "down" /\ a = covers[i].down]_vars

\* with two covers and a light subscribed, a scene line reached only the
\* cover whose down address it names
C16_Witness ==
    /\ call.op = "handle"
    /\ IsSceneLine(call.args[1])
    /\ NoSharedAddress
    /\ Len(covers) = 2
    /\ \A d \in DeviceIds : callback_[d] # NoTask
    /\ Len(notified) = 1
    /\ notified[1].val = "down"

\* the character of a digit value
Digit(k) == Digits[k + 1]

\* Z, module in two digits, channel in one digit, L, intensity in three
\* digits, T1
ZoneText(m, c, v) ==
    <<"Z", Digit(m \div 10), Digit(m % 10), Digit(c), "L",
      Digit(v \div 100), Digit((v \div 10) % 10), Digit(v % 10), "T", "1">>

\* position of the colors list that belongs to an address name
ColorIndex(name) ==
    CASE name = "r" -> 1 [] name = "g" -> 2 [] name = "b" -> 3 [] name = "w" -> 4

\* the step put exactly the k commands with the texts text[1..k] at the
\* end of the outbound queue
Enqueues(k, text) ==
    /\ Len(send_queue') = Len(send_queue) + k
    /\ SubSeq(send_queue', 1, Len(send_queue)) = send_queue
    /\ enqueued' = enqueued + k
    /\ \A j \in 1..k :
          /\ send_queue'[Len(send_queue) + j].text = text[j]
          /\ send_queue'[Len(send_queue) + j].id = enqueued + j

C18_WrongLengthRejected ==
    [][(Calls("update_light") /\ Len(call'.args[2]) # 4) =>
        (/\ call'.raised
         /\ UNCHANGED <<send_queue, enqueued, addr_state, callback_, is_connected>>
         /\ notified' = <<>>)]_vars

\* a list of five colors for an existing light was rejected and the command
\* queued before is still the only one
C18_Witness ==
    /\ call.op = "update_light"
    /\ call.raised
    /\ Len(call.args[2]) = 5
    /\ call.args[1] \in LightIds
    /\ Len(send_queue) = 1

\* C19: set-zone-intensity enqueues exactly one command, Z + module in two
\* digits + channel in one digit + L + intensity in three digits + T1, for
\* module 0..99, channel 0..9 and intensity 0..100; (5, 2, 100) gives
\* Z052L100T1.
C19_ZoneIntensityText ==
    [][(/\ Calls("set_zone")
        /\ call'.args[1] \in 0..99
        /\ call'.args[2] \in 0..9
        /\ call'.args[3] \in 0..100) =>
        (/\ Enqueues(1, <<ZoneText(call'.args[1], call'.args[2], call'.args[3])>>)
         /\ call'.args = <<5, 2, 100>> =>
               send_queue'[Len(send_queue')].text
               = <<"Z", "0", "5", "2", "L", "1", "0", "0", "T", "1">>)]_vars

\* Z052L100T1 was enqueued behind an earlier command
C19_Witness ==
    /\ call.op = "set_zone"
    /\ call.args = <<5, 2, 100>>
    /\ Len(send_queue) >= 2
    /\ send_queue[Len(send_queue)].text
       = <<"Z", "0", "5", "2", "L", "1", "0", "0", "T", "1">>

\* an address with zeros in front up to four characters
LeadingZeros(address) == Zeros(4 - Len(address)) \o address

\* C20: a cover move for an existing cover enqueues exactly one command,
\* C + the address with leading zeros up to four digits + 1.
C20_CoverMoveText ==
    [][(Calls("update_cover") /\ call'.args[1] \in CoverIds) =>
        Enqueues(1, <<(<<"C">> \o LeadingZeros(call'.args[2]) \o <<"1">>)>>)]_vars

IfseiOn == <<"*", "I", "F", "S", "E", "I", "O", "N">>

\* C21: handling the message *IFSEION sets the connected flag and calls the
\* subscriber of every device that has one, light or cover, once with
\* {available: true}; a longer message that starts with *IFSEION does
\* neither.
C21_OnlineBroadcast ==
    [][Calls("handle") =>
        LET r == call'.args[1]
        IN  /\ r = IfseiOn =>
                /\ ~call'.raised
                /\ is_connected' = TRUE
                /\ addr_state' = addr_state
                /\ \A k \in 1..Len(notified') :
                      /\ notified'[k].dev \in DeviceIds
                      /\ notified'[k].key = "available"
                      /\ notified'[k].val = TRUE
                /\ \A d \in DeviceIds :
                      Cardinality(NotesTo(notified', d))
                      = IF callback_[d] = NoTask THEN 0 ELSE 1
            /\ (r # IfseiOn /\ StartsWith(r, IfseiOn)) =>
                /\ is_connected' = is_connected
                /\ addr_state' = addr_state
                /\ notified' = <<>>]_vars

\* *IFSEION was handled with two lights and two covers subscribed: the flag
\* is set and four subscribers were called
C21_Witness ==
    /\ call.op = "handle"
    /\ call.args[1] = IfseiOn
    /\ is_connected
    /\ Len(lights) = 2 /\ Len(covers) = 2
    /\ Len(notified) = 4

\* a message no branch of the dispatcher recognizes
Unrecognized(r) ==
    /\ r # IfseiOn
    /\ ~StartsWith(r, <<"*", "Z">>)
    /\ ~StartsWith(r, <<"*", "C">>)
    /\ ~StartsWith(r, <<"E">>)

\* the handled message had no effect and the dispatcher loop goes on
NoEffect ==
    /\ ~call'.raised
    /\ UNCHANGED <<addr_state, is_connected, callback_, send_queue, enqueued,
                   ptasks, connection, reconnect_task, is_closing>>
    /\ notified' = <<>>

\* C23: a message that is not *IFSEION and does not start with *Z, *C or E
\* is ignored: no state changes, nobody is called, nothing is enqueued and
\* the dispatcher loop keeps running.
C23_UnknownIgnored ==
    [][(Calls("handle") /\ Unrecognized(call'.args[1])) => NoEffect]_vars

\* an unrecognized message was handled by a connected engine with a
\* subscriber registered
C23_Witness ==
    /\ call.op = "handle"
    /\ Unrecognized(call.args[1])
    /\ is_connected
    /\ \E d \in DeviceIds : callback_[d] # NoTask
    /\ ptasks[1] = "running"

\* C24: a message that starts with E is only logged: nothing is raised, no
\* device or connection state changes, nobody is called and the dispatcher
\* loop keeps running.
C24_ErrorOnlyLogged ==
    [][(Calls("handle") /\ StartsWith(call'.args[1], <<"E">>)) => NoEffect]_vars

\* an E3 message with a module address was handled by a connected engine
\* with a subscriber registered
C24_Witness ==
    /\ call.op = "handle"
    /\ call.args[1] = <<"E", "3", "0", "5">>
    /\ is_connected
    /\ \E d \in DeviceIds : callback_[d] # NoTask
    /\ ptasks[1] = "running"

\* the transport of some client ended in this step
LossStep ==
    \E c \in ClientIds :
        clients[c].transport # "down" /\ clients'[c].transport = "down"

\* the subscriber of every device that has one was called once with
\* {available: val}, and nobody else
Broadcast(val) ==
    /\ \A k \in 1..Len(notified') :
          /\ notified'[k].dev \in DeviceIds
          /\ notified'[k].key = "available"
          /\ notified'[k].val = val
    /\ \A d \in DeviceIds :
          Cardinality(NotesTo(notified', d)) = IF callback_[d] = NoTask THEN 0 ELSE 1

\* C22: on every connection loss of an engine that is not closing the
\* connected flag becomes false and the subscriber of every device that has
\* one is called with {available: false}.
C22_LossBroadcast ==
    [][(LossStep /\ ~is_closing) => (is_connected' = FALSE /\ Broadcast(FALSE))]_vars

\* an engine that had dispatched a message lost its transport with a light
\* and a cover subscribed: both were told
C22_Witness ==
    /\ ~is_closing
    /\ ~is_connected
    /\ \E c \in ClientIds : clients[c].transport = "down" /\ ~clients[c].ignored
    /\ Len(notified) = 2
    /\ \A k \in 1..Len(notified) : notified[k].val = FALSE
    /\ Len(dispatched) >= 1

\* C27: the lookup by id returns the device with that unique_id, light or
\* cover, and no device when no device has the id.
C27_LookupFindsDevice ==
    [][Calls("lookup") =>
          call'.args[2] = IF call'.args[1] \in DeviceIds THEN call'.args[1]
                          ELSE NoDevice]_vars

\* ---------------------------------------------------- inbound-path claims
RECURSIVE DropTrailingControl(_)
DropTrailingControl(s) ==
    IF s # <<>> /\ s[Len(s)] \in {"\r", "\n"}
    THEN DropTrailingControl(SubSeq(s, 1, Len(s) - 1))
    ELSE s

\* the characters of a stream without the terminator and the control
\* characters in front of it
Message(raw) == DropTrailingControl(SubSeq(raw, 1, Len(raw) - 1))

\* C25: what the reader pushes when it reads a terminator is the text
\* accumulated since the previous terminator, without the terminator and
\* the trailing CR/LF and with every other character kept.
C25_FramedExactly ==
    [][pushed' = pushed + 1 =>
          \E raw \in Streams :
              receive_queue'[Len(receive_queue')].text = Message(raw)]_vars

\* C26: a subscriber call goes to the one callback the device holds at that
\* moment: never to a replaced callback and never to a device whose
\* callback was removed.
C26_OneSubscriber ==
    [][\A k \in 1..Len(notified') :
          /\ notified'[k].cb # NoTask
          /\ notified'[k].cb = callback_[notified'[k].dev]
          /\ notified'[k].cb = callback_'[notified'[k].dev]]_vars

\* the light and the cover hold different callbacks, the light's second
\* one, and an availability event reached each device's own callback
C26_Witness ==
    /\ callback_["l1"] = 2
    /\ callback_["c1"] = 1
    /\ Len(notified) = 2
    /\ \A k \in 1..Len(notified) : notified[k].cb = callback_[notified[k].dev]


\* ---------------------------------------------------- reconnect claims
\* the dispatcher loops that wait on the inbound queue
Dispatchers == {p \in 1..Len(ptasks) : ptasks[p] = "running"}

\* C28: at any time at most one dispatcher loop consumes the inbound queue,
\* after any sequence of connect, connection loss and reconnect.
C28_SingleDispatcher == Cardinality(Dispatchers) <= 1

\* reconnect task k ended an attempt of async_connect in this step
AttemptEnded(k) ==
    /\ rtasks[k].pc \in {"connect", "negotiating"}
    /\ rtasks'[k].pc \notin {"connect", "negotiating"}

\* C29: in the reconnect loop every failed connect attempt, whatever the
\* failure, is followed by the wait and another attempt; the loop ends only
\* after a successful connect, and then the reconnect flag is cleared.
C29_FailedAttemptRetried ==
    [][\A k \in 1..Len(rtasks) :
          /\ AttemptEnded(k) =>
                \/ rtasks'[k].pc = "sleep"
                \/ /\ rtasks'[k].pc = "done"
                   /\ Live(rtasks'[k].cl)
                   /\ connection' = rtasks'[k].cl
                   /\ reconnect_task' = NoTask
          /\ rtasks[k].pc = "sleep" => rtasks'[k].pc \in {"sleep", "connect"}]_vars


\* a loss signal reached an engine that is not closing while its reconnect
\* task exists
LossDuringReconnect == LossStep /\ ~is_closing /\ reconnect_task # NoTask

\* C30 as claimed: a loss signal that arrives while a reconnect loop is
\* running changes neither the connection handle, the reconnect flag nor the
\* connected flag, and no subscriber is called.
C30_LossDuringReconnectNoOp ==
    [][LossDuringReconnect =>
          (/\ UNCHANGED <<connection, reconnect_task, is_connected>>
           /\ notified' = <<>>)]_vars

\* C30: a loss signal that arrives while a reconnect loop is running starts
\* no second loop and leaves the connection handle, the reconnect flag and
\* the dispatcher tasks as they were; the connected flag is false afterwards
\* and the subscriber of every device that has one is called with
\* {available: false}.
C30_LossDuringReconnect ==
    [][LossDuringReconnect =>
          (/\ UNCHANGED <<connection, reconnect_task, rtasks, ptasks>>
           /\ is_connected' = FALSE
           /\ Broadcast(FALSE))]_vars

\* the connection the running reconnect loop was negotiating was lost: the
\* loop is still the registered one and the subscribers were told
C30_Witness ==
    /\ ~is_closing
    /\ reconnect_task # NoTask
    /\ rtasks[reconnect_task].pc = "negotiating"
    /\ clients[rtasks[reconnect_task].cl].transport = "down"
    /\ ~clients[rtasks[reconnect_task].cl].ignored
    /\ Len(rtasks) = 1
    /\ notified # <<>>
    /\ \A k \in 1..Len(notified) :
          notified[k].key = "available" /\ notified[k].val = FALSE


\* ------------------------------------------------------ task claims
\* the engine holds a live connection whose shell has started its loops
HoldsLive ==
    /\ connection # NoTask
    /\ Live(connection)
    /\ clients[connection].stage = "shell_done"

\* C31: whenever the engine holds a live connection, its sender loop and its
\* reader loop are running, and no loop of a lost connection is running.
C31_OneSenderOneReader ==
    /\ HoldsLive => /\ Running(clients[connection].send_task)
                    /\ Running(clients[connection].receive_task)
    /\ \A c \in ClientIds :
          clients[c].transport = "down" =>
              /\ ~Running(clients[c].send_task)
              /\ ~Running(clients[c].receive_task)


\* C32: every message pushed on the inbound queue consists only of
\* characters read on one single connection, the one of the reader that
\* pushed it; what a reader had accumulated before a loss is in no message
\* of a later connection.
C32_NoSplicing ==
    [][pushed' = pushed + 1 =>
          \E c \in ClientIds :
              /\ clients[c].receive_task = "read"
              /\ receive_queue'[Len(receive_queue')].origins = {c}]_vars

\* client 1 was lost with characters accumulated and no terminator, and the
\* reader of client 2 has pushed a message
C32_Witness ==
    /\ Len(clients) = 2
    /\ clients[1].transport = "down"
    /\ clients[1].response # <<>>
    /\ receive_queue # <<>>
    /\ receive_queue[Len(receive_queue)].origins = {2}


\* C33: in a send loop a write is followed by the inter-command delay, and
\* the loop neither pops nor writes again before that delay has elapsed:
\* every write puts its loop into the delay, and a loop leaves the delay only
\* when it has elapsed (back to waiting on the queue) or when the task is
\* cancelled, in a step that pops and writes nothing.
C33_DelayBetweenWrites ==
    [][/\ written' # written =>
             \E c \in ClientIds :
                 /\ clients[c].send_task = "get"
                 /\ clients'[c].send_task = "delay"
       /\ \A c \in ClientIds :
             clients[c].send_task = "delay" =>
                 \/ clients'[c].send_task = "delay"
                 \/ /\ clients'[c].send_task \in {"get", "cancelled"}
                    /\ UNCHANGED <<send_queue, written>>]_vars

\* the one sender loop of the run wrote a second command and is in the delay
\* that follows it
C33_Witness ==
    /\ Len(clients) = 1
    /\ Len(written) = 2
    /\ send_queue = <<>>
    /\ clients[1].send_task = "delay"
    /\ Live(1)


\* C34: the connected flag of an engine that is not closing is never true
\* without a live transport: after a loss it stays false until a message of
\* the new connection is dispatched.
C34_ConnectedMeansLive ==
    (is_connected /\ ~is_closing) =>
        /\ connection # NoTask
        /\ Live(connection)


\* C35: whenever the engine is not closing and its connection has been
\* lost, a reconnect loop is active (connecting, negotiating or waiting for
\* its next attempt).
C35_LostMeansReconnecting == LostUnintended => ActiveLoops # {}


\* ---------------------------------------------------- two-engine claims
\* C36: two engines of one process have independent queues: every command
\* written was enqueued on the engine whose sender wrote it, and every
\* message dispatched was read by the reader of the engine that dispatched
\* it.
C36_IndependentQueues ==
    /\ \A i \in 1..Len(written) : written[i].by = written[i].owner
    /\ \A i \in 1..Len(dispatched) : dispatched[i].by = dispatched[i].owner


\* ----------------------------------------------------- device claims
\* C37: every cached intensity of every light address is within 0..100,
\* whatever zone status lines are received.
C37_IntensityInRange ==
    \A i \in 1..Len(lights) : \A j \in 1..Len(lights[i].address) :
        addr_state[i][j] \in 0..100


\* the step is a cover move for an id that no cover has, or a light update
\* with four colors for an id that no light has
UnknownDeviceCall ==
    \/ Calls("update_cover") /\ call'.args[1] \notin CoverIds
    \/ /\ Calls("update_light")
       /\ Len(call'.args[2]) = 4
       /\ call'.args[1] \notin LightIds

\* C38: a cover move for an id that matches no cover, and a light update
\* with a list of four colors for an id that matches no light, enqueue
\* nothing, raise no error and change no state.
C38_UnknownDeviceIgnored ==
    [][UnknownDeviceCall =>
          (/\ ~call'.raised
           /\ UNCHANGED <<engine, queues, logs, devices, ptasks, clients>>
           /\ notified' = <<>>)]_vars

\* a light update with four colors was called with the id of a cover: the
\* command queued before is still the only one
C38_Witness ==
    /\ call.op = "update_light"
    /\ call.args[1] \in CoverIds
    /\ Len(call.args[2]) = 4
    /\ ~call.raised
    /\ Len(send_queue) = 1

====
